---- MODULE Spec2Model ----
(***************************************************************************)
(* Model of etl/eufacts.py: the Eurostat cube reduction                    *)
(* (_linear_index_to_coords, _build_dim_meta, _choose_pct_unit,            *)
(* parse_latest_and_timeseries) and the run that drives it                 *)
(* (process_dataset, main).                                                *)
(*                                                                         *)
(* Python values are modelled as follows.                                  *)
(*   dict        a sequence of <<key, value>> pairs with distinct keys, in *)
(*               insertion order (Python dicts iterate in that order)      *)
(*   None        the string None below, which is no code of the universe   *)
(*   cell value  a record [none, num]: JSON null is [none |-> TRUE], a     *)
(*               number n is [none |-> FALSE, num |-> n]                   *)
(*   str order   Python compares strings by code point; StrRank tabulates  *)
(*               that order on the codes of the universe                   *)
(***************************************************************************)
EXTENDS Integers, Sequences, FiniteSets, TLC

\* ------------------------------------------------------------------ bounds

\* longest value mapping of a fetched cube (number of populated cells)
MaxCells == 3
\* cell values are null or 1..MaxValue
MaxValue == 2
\* longest size list and largest dimension size given to the coordinate decoder
MaxDims == 3
MaxDimSize == 3

\* ------------------------------------------------------------------ Python values

None == "<None>"

NullValue == [none |-> TRUE, num |-> 0]

Num(n) == [none |-> FALSE, num |-> n]

\* truthiness of a str-or-None: None and "" are falsy
Truthy(s) == s # None /\ s # ""

\* every code of the universe, in Python's (code point) string order
CodeOrder ==
    << "", "2023Q4", "2024Q1", "ABC", "BE", "DE", "FR", "PCGDP", "PCTGDP",
       "PCT_GDP", "PC_GDP", "S11", "S13", "XYZ" >>

StrRank(s) == CHOOSE j \in 1..Len(CodeOrder) : CodeOrder[j] = s

StrLess(a, b) == StrRank(a) < StrRank(b)

\* the labels of the universe in which the character '%' occurs
PctLabels == { "Percentage (%) of GDP", "%" }

\* label and "%" in label
LabelHasPct(label) == Truthy(label) /\ label \in PctLabels

\* ---- dicts
DictHas(d, k) == \E j \in 1..Len(d) : d[j][1] = k

DictGet(d, k) == d[CHOOSE j \in 1..Len(d) : d[j][1] = k][2]

DictGetOr(d, k, default) == IF DictHas(d, k) THEN DictGet(d, k) ELSE default

DictSet(d, k, v) ==
    IF DictHas(d, k)
    THEN [j \in 1..Len(d) |-> IF d[j][1] = k THEN <<k, v>> ELSE d[j]]
    ELSE Append(d, <<k, v>>)

\* list.sort / sorted: a stable sort; before[i][j] iff the key of s[i] orders
\* strictly before the key of s[j]. Elements with equal keys keep their order.
StableSort(s, before) ==
    LET n == Len(s)
        Pos(i) == 1 + Cardinality({ j \in 1..n :
                        \/ before[j][i]
                        \/ (~before[i][j] /\ j < i) })
    IN  [p \in 1..n |-> s[CHOOSE i \in 1..n : Pos(i) = p]]

\* ------------------------------------------------------------------ Coordinate decoder

\* a variant: the collected positions are not reversed back
linear_index_to_coords_noreverse(idx, dims_sizes) ==
    LET n == Len(dims_sizes)
        rest[k \in 0..n] ==
            IF k = 0 THEN idx ELSE rest[k - 1] \div dims_sizes[n - k + 1]
    IN  [j \in 1..n |-> rest[j - 1] % dims_sizes[n - j + 1]]

\* for size in reversed(dims_sizes): coords.append(idx % size); idx //= size
\* rest[k] is idx after k iterations; dimension j is visited in iteration n-j+1
linear_index_to_coords(idx, dims_sizes) ==
    LET n == Len(dims_sizes)
        rest[k \in 0..n] ==
            IF k = 0 THEN idx ELSE rest[k - 1] \div dims_sizes[n - k + 1]
    IN  [j \in 1..n |-> rest[n - j] % dims_sizes[j]]

\* the mixed-radix value of a position vector over the same sizes (row-major,
\* last dimension fastest); not in the source, the inverse the decoder is for
EncodeCoords(coords, dims_sizes) ==
    LET n == Len(dims_sizes)
        acc[k \in 0..n] ==
            IF k = 0 THEN 0 ELSE acc[k - 1] * dims_sizes[k] + coords[k]
    IN  acc[n]

Product(dims_sizes) ==
    LET n == Len(dims_sizes)
        acc[k \in 0..n] == IF k = 0 THEN 1 ELSE acc[k - 1] * dims_sizes[k]
    IN  acc[n]

\* ------------------------------------------------------------------ the cubes fetched

\* a category object {"index": {code: pos}, "label": {code: label}}, positions
\* in the order the codes are listed; "length" absent (<<>>)
Cat(codes, labels) ==
    [ index  |-> [j \in 1..Len(codes) |-> <<codes[j], j - 1>>],
      label  |-> [j \in 1..Len(codes) |-> <<codes[j], labels[j]>>],
      length |-> <<>> ]

PctL == "Percentage (%) of GDP"
PlainL == "Percentage of GDP"
EurL == "Million euro"

UnitPC == Cat(<<"PC_GDP">>, <<"%">>)

UnitCats ==
    { UnitPC,
      Cat(<<"PC_GDP", "XYZ">>, <<PlainL, PctL>>),
      Cat(<<"XYZ", "PC_GDP">>, <<PctL, PlainL>>),
      Cat(<<"PCGDP", "PC_GDP">>, <<PctL, PlainL>>),
      Cat(<<"PCTGDP", "PCT_GDP">>, <<PlainL, PlainL>>),
      Cat(<<"XYZ", "ABC">>, <<PctL, PctL>>),
      Cat(<<"ABC", "XYZ">>, <<EurL, PctL>>),
      Cat(<<"XYZ">>, <<EurL>>),
      Cat(<<"XYZ", "ABC">>, <<EurL, PlainL>>),
      Cat(<<"", "XYZ">>, <<PctL, EurL>>) }

Geo1 == Cat(<<"BE">>, <<"Belgium">>)
Geo2 == Cat(<<"BE", "DE">>, <<"Belgium", "Germany">>)
Geo3 == Cat(<<"BE", "DE", "FR">>, <<"Belgium", "Germany", "France">>)

GeoCats ==
    { Geo2,
      Cat(<<"DE", "BE">>, <<"Germany", "Belgium">>),
      Cat(<<"", "BE">>, <<"Unknown", "Belgium">>) }

Time1 == Cat(<<"2024Q1">>, <<"2024-Q1">>)
Time2 == Cat(<<"2023Q4", "2024Q1">>, <<"2023-Q4", "2024-Q1">>)

TimeCats ==
    { Time2,
      \* no "index": positions come from the label map's key order
      [Time2 EXCEPT !.index = <<>>],
      \* "index" and the label map list the codes in different orders
      [Time2 EXCEPT !.label = << <<"2024Q1", "2024-Q1">>, <<"2023Q4", "2023-Q4">> >>],
      \* a code without a label
      [Time2 EXCEPT !.label = << <<"2023Q4", "2023-Q4">> >>],
      \* an explicit "length" above and below the number of codes
      [Time2 EXCEPT !.length = <<3>>],
      [Time2 EXCEPT !.length = <<1>>],
      \* positions that are not contiguous
      [Time2 EXCEPT !.index = << <<"2023Q4", 0>>, <<"2024Q1", 2>> >>] }

Sector2 == Cat(<<"S13", "S11">>, <<"General government", "Non-financial corporations">>)

AllValues == { NullValue } \cup { Num(n) : n \in 1..MaxValue }

Min(a, b) == IF a < b THEN a ELSE b

\* every value mapping of at most MaxCells cells over a cell space of P cells:
\* distinct keys (the decimal strings of 0..P-1) in any order
ValueMaps(P, vals) ==
    UNION { { [j \in 1..n |-> <<ToString(ks[j]), vs[j]>>] :
                ks \in { f \in [1..n -> 0..(P - 1)] :
                           \A a, b \in 1..n : a # b => f[a] # f[b] },
                vs \in [1..n -> vals] } :
            n \in 0..Min(MaxCells, P) }

DimensionOf(names, cats) ==
    [d \in { names[j] : j \in 1..Len(names) } |->
        cats[CHOOSE j \in 1..Len(names) : names[j] = d]]

\* the size list upstream sends: the number of codes of each dimension
SizeOf(cats) ==
    [j \in 1..Len(cats) |->
        IF cats[j].index # <<>> THEN Len(cats[j].index) ELSE Len(cats[j].label)]

\* the cubes whose id, size and dimension agree, with every value mapping
CubesOf(names, cats, vals) ==
    { [ id |-> names, size |-> SizeOf(cats), dimension |-> DimensionOf(names, cats),
        value |-> vm ] : vm \in ValueMaps(Product(SizeOf(cats)), vals) }

UGT == <<"unit", "geo", "time">>

\* unit catalogs, one geography, one period
UnitCubes == UNION { CubesOf(UGT, <<u, Geo1, Time1>>, { Num(1) }) : u \in UnitCats }

\* one unit, three geographies, one period, every value
ValueCubes == CubesOf(UGT, <<UnitPC, Geo3, Time1>>, AllValues)

\* one unit, two geographies, two periods
SeriesCubes ==
    UNION ( { CubesOf(UGT, <<UnitPC, g, Time2>>, { Num(1) }) : g \in GeoCats }
            \cup { CubesOf(UGT, <<UnitPC, Geo2, t>>, { Num(1) }) : t \in TimeCats } )

\* other dimension lists
ShapeCubes ==
    CubesOf(<<"geo", "time">>, <<Geo2, Time1>>, { Num(1) })
    \cup CubesOf(<<"unit", "time">>, <<UnitPC, Time2>>, { Num(1) })
    \cup CubesOf(<<"unit", "geo">>, <<UnitPC, Geo2>>, { Num(1) })
    \cup CubesOf(<<"unit", "sector", "geo", "time">>,
                 <<UnitPC, Sector2, Geo1, Time1>>, { Num(1), Num(2) })

\* cubes whose id, size and dimension disagree
BrokenCubes ==
    { [c EXCEPT !.dimension = [d \in (DOMAIN c.dimension) \ {gone} |-> c.dimension[d]]] :
        c \in CubesOf(UGT, <<UnitPC, Geo1, Time1>>, { Num(1) }), gone \in { "geo", "time" } }
    \cup { [c EXCEPT !.dimension = [c.dimension EXCEPT !["geo"] = Geo1]] :
             c \in CubesOf(UGT, <<UnitPC, Geo2, Time1>>, { Num(1) }) }

\* one fully populated cube: unit PC_GDP labelled "%", BE and DE, two periods,
\* linear indices 0..3 carrying 80.0, 60.0, 82.0, 65.0
ScenarioCube ==
    [ id        |-> UGT,
      size      |-> <<1, 2, 2>>,
      dimension |-> DimensionOf(UGT, <<UnitPC, Geo2, Time2>>),
      value     |-> << <<"0", Num(80)>>, <<"1", Num(60)>>,
                       <<"2", Num(82)>>, <<"3", Num(65)>> >> ]

Cubes ==
    UnitCubes \cup ValueCubes \cup SeriesCubes \cup ShapeCubes \cup BrokenCubes
    \cup { ScenarioCube }

\* ------------------------------------------------------------------ Dimension catalog

\* a dimension named in cube["id"] has no entry in cube["dimension"]:
\* dimension[d] raises KeyError
build_dim_meta_raises(cube) ==
    \E j \in 1..Len(cube.id) : cube.id[j] \notin DOMAIN cube.dimension

\* {pos: code for code, pos in index_map.items()}
InvertIndex(index_map) ==
    LET n == Len(index_map)
        acc[k \in 0..n] ==
            IF k = 0 THEN <<>>
            ELSE DictSet(acc[k - 1], index_map[k][2], index_map[k][1])
    IN  acc[n]

\* a variant: the label map's key order decides the positions even when the
\* cube supplies an index
DimMetaOf_labelorder(cat) ==
    LET index_map == [i \in 1..Len(cat.label) |-> <<cat.label[i][1], i - 1>>]
    IN  [ index     |-> index_map,
          inv_index |-> InvertIndex(index_map),
          labels    |-> cat.label,
          size      |-> IF cat.length # <<>> THEN cat.length[1] ELSE Len(index_map) ]

\* a variant: the declared size is the number of codes, whatever "length" says
DimMetaOf_nolength(cat) ==
    LET index_map ==
            IF cat.index # <<>> THEN cat.index
            ELSE [i \in 1..Len(cat.label) |-> <<cat.label[i][1], i - 1>>]
    IN  [ index     |-> index_map,
          inv_index |-> InvertIndex(index_map),
          labels    |-> cat.label,
          size      |-> Len(index_map) ]

\* the body of the loop over dim_ids: one dimension's catalog
DimMetaOf(cat) ==
    LET index_map ==
            IF cat.index # <<>> THEN cat.index
            ELSE [i \in 1..Len(cat.label) |-> <<cat.label[i][1], i - 1>>]
    IN  [ index     |-> index_map,
          inv_index |-> InvertIndex(index_map),
          labels    |-> cat.label,
          size      |-> IF cat.length # <<>> THEN cat.length[1] ELSE Len(index_map) ]

\* dim_meta, a dict keyed by dimension name (here a function on the names)
build_dim_meta(cube) ==
    [d \in { cube.id[j] : j \in 1..Len(cube.id) } |-> DimMetaOf(cube.dimension[d])]

\* ------------------------------------------------------------------ Cell materializer

\* int(k) for a decimal key of one digit
ParseInt(k) ==
    LET digits == <<"0", "1", "2", "3", "4", "5", "6", "7", "8", "9">>
    IN  (CHOOSE j \in 1..10 : digits[j] = k) - 1

\* zip(dim_ids, coords) stops at the shorter list
ZipLen(cube) == Min(Len(cube.id), Len(cube.size))

CoordsOf(cube, k) == linear_index_to_coords(ParseInt(k), cube.size)

\* inv[pos] raises KeyError: the decoded position is no position of the catalog
CellRaises(cube, dm, k) ==
    \E j \in 1..ZipLen(cube) : ~DictHas(dm[cube.id[j]].inv_index, CoordsOf(cube, k)[j])

\* one record of all_records; coord_map.get(d, {}).get(f) is None when the cube
\* has no dimension d
RecordOf(cube, dm, kv) ==
    LET coords == CoordsOf(cube, kv[1])
        Has(d) == \E j \in 1..ZipLen(cube) : cube.id[j] = d
        \* a later entry of coord_map replaces an earlier one of the same name
        PosOf(d) == coords[CHOOSE j \in 1..ZipLen(cube) :
                        /\ cube.id[j] = d
                        /\ \A i \in 1..ZipLen(cube) : cube.id[i] = d => i <= j]
        CodeOf(d) == DictGet(dm[d].inv_index, PosOf(d))
        LabelOf(d) == DictGetOr(dm[d].labels, CodeOf(d), CodeOf(d))
    IN  [ value      |-> kv[2],
          unit_code  |-> IF Has("unit") THEN CodeOf("unit") ELSE None,
          unit_label |-> IF Has("unit") THEN LabelOf("unit") ELSE None,
          geo_code   |-> IF Has("geo") THEN CodeOf("geo") ELSE None,
          geo_label  |-> IF Has("geo") THEN LabelOf("geo") ELSE None,
          time_code  |-> CodeOf("time"),
          time_label |-> LabelOf("time"),
          time_pos   |-> PosOf("time") ]

Materialize(cube, dm) ==
    [j \in 1..Len(cube.value) |-> RecordOf(cube, dm, cube.value[j])]

MaterializeRaises(cube, dm) ==
    \E j \in 1..Len(cube.value) : CellRaises(cube, dm, cube.value[j][1])

\* ------------------------------------------------------------------ Unit disambiguator

\* sorted({...}): the codes of a set in ascending string order
SortedCodes(S) ==
    LET all == [j \in 1..Len(CodeOrder) |-> CodeOrder[j]]
    IN  SelectSeq(all, LAMBDA c : c \in S)

UnitsPresent(records) ==
    SortedCodes({ records[j].unit_code : j \in { i \in 1..Len(records) :
                                                   Truthy(records[i].unit_code) } })

PreferredUnits == <<"PC_GDP", "PCGDP", "PCT_GDP", "PCTGDP">>

\* unit_labels: each unit code with the label of its first record, in the order
\* the codes are first seen
UnitLabels(records) ==
    LET n == Len(records)
        acc[k \in 0..n] ==
            IF k = 0 THEN <<>>
            ELSE IF Truthy(records[k].unit_code) /\ ~DictHas(acc[k - 1], records[k].unit_code)
                 THEN Append(acc[k - 1], <<records[k].unit_code, records[k].unit_label>>)
                 ELSE acc[k - 1]
    IN  acc[n]

\* a variant: the '%' label is looked for before the preferred codes
choose_pct_unit_labelfirst(records) ==
    LET units_present == UnitsPresent(records)
        InUnits(c) == \E j \in 1..Len(units_present) : units_present[j] = c
        preferred == SelectSeq(PreferredUnits, InUnits)
        unit_labels == UnitLabels(records)
        pct == SelectSeq(unit_labels, LAMBDA e : LabelHasPct(e[2]))
    IN  IF pct # <<>> THEN pct[1][1]
        ELSE IF preferred # <<>> THEN preferred[1]
        ELSE IF Len(units_present) = 1 THEN units_present[1]
        ELSE None

\* a variant: the '%' label is looked for over the sorted codes, not in the
\* order the codes are first seen
choose_pct_unit_alphabetical(records) ==
    LET units_present == UnitsPresent(records)
        InUnits(c) == \E j \in 1..Len(units_present) : units_present[j] = c
        preferred == SelectSeq(PreferredUnits, InUnits)
        unit_labels == UnitLabels(records)
        pct == SelectSeq(units_present, LAMBDA c : LabelHasPct(DictGet(unit_labels, c)))
    IN  IF preferred # <<>> THEN preferred[1]
        ELSE IF pct # <<>> THEN pct[1]
        ELSE IF Len(units_present) = 1 THEN units_present[1]
        ELSE None

\* a variant: the fallback takes the first unit whenever there is one
choose_pct_unit_anyunit(records) ==
    LET units_present == UnitsPresent(records)
        InUnits(c) == \E j \in 1..Len(units_present) : units_present[j] = c
        preferred == SelectSeq(PreferredUnits, InUnits)
        unit_labels == UnitLabels(records)
        pct == SelectSeq(unit_labels, LAMBDA e : LabelHasPct(e[2]))
    IN  IF preferred # <<>> THEN preferred[1]
        ELSE IF pct # <<>> THEN pct[1][1]
        ELSE IF Len(units_present) >= 1 THEN units_present[1]
        ELSE None

choose_pct_unit(records) ==
    LET units_present == UnitsPresent(records)
        InUnits(c) == \E j \in 1..Len(units_present) : units_present[j] = c
        preferred == SelectSeq(PreferredUnits, InUnits)
        unit_labels == UnitLabels(records)
        pct == SelectSeq(unit_labels, LAMBDA e : LabelHasPct(e[2]))
    IN  IF preferred # <<>> THEN preferred[1]
        ELSE IF pct # <<>> THEN pct[1][1]
        ELSE IF Len(units_present) = 1 THEN units_present[1]
        ELSE None

\* if chosen_unit: all_records = [r for r in all_records if r.get("unit_code") == chosen_unit]
FilterUnit(records, chosen) ==
    IF Truthy(chosen) THEN SelectSeq(records, LAMBDA r : r.unit_code = chosen)
    ELSE records

\* ------------------------------------------------------------------ Projection builder

\* a variant: the sort is ascending (no reverse=True)
LatestKeyGreater_ascending(a, b) ==
    IF a.value.none # b.value.none THEN b.value.none
    ELSE ~a.value.none /\ a.value.num < b.value.num

\* (a["value"] is None, a["value"]) > (b[...] is None, b[...]): True > False,
\* and None == None ends the comparison of two missing values as equal
LatestKeyGreater(a, b) ==
    IF a.value.none # b.value.none THEN a.value.none
    ELSE ~a.value.none /\ a.value.num > b.value.num

\* a variant: the latest period is the last one observed in the records
LatestRecords_observed(records, latest_time_pos) ==
    LET at == SelectSeq(records, LAMBDA r :
                  \A j \in 1..Len(records) : records[j].time_pos <= r.time_pos)
    IN  StableSort(at, [i \in 1..Len(at) |-> [j \in 1..Len(at) |->
                          LatestKeyGreater(at[i], at[j])]])

\* latest_records.sort(key=..., reverse=True) keeps equal keys in list order
LatestRecords(records, latest_time_pos) ==
    LET at == SelectSeq(records, LAMBDA r : r.time_pos = latest_time_pos)
    IN  StableSort(at, [i \in 1..Len(at) |-> [j \in 1..Len(at) |->
                          LatestKeyGreater(at[i], at[j])]])

LatestOutput(records, latest_time_pos) ==
    LET lr == LatestRecords(records, latest_time_pos)
    IN  [j \in 1..Len(lr) |->
            [ country_code  |-> lr[j].geo_code,
              country       |-> lr[j].geo_label,
              time          |-> lr[j].time_label,
              value_pct_gdp |-> lr[j].value ]]

\* (a["geo_code"], a["time_pos"]) < (b["geo_code"], b["time_pos"]); the geo codes
\* of one cube are all None or all strings
GeoTimeLess(a, b) ==
    IF a.geo_code = b.geo_code THEN a.time_pos < b.time_pos
    ELSE StrLess(a.geo_code, b.geo_code)

\* the loop over all_records_sorted. series_by_geo is a dict geo -> series
\* object, here the list of its values in insertion order. An entry of "series"
\* also carries time_pos, which the source does not store: the position of the
\* period its "time" label names.
GroupByGeo(sorted) ==
    LET n == Len(sorted)
        Entry(r) == [ time |-> r.time_label, value_pct_gdp |-> r.value,
                      time_pos |-> r.time_pos ]
        acc[k \in 0..n] ==
            IF k = 0 THEN <<>>
            ELSE LET r == sorted[k]
                     prev == acc[k - 1]
                 IN  IF ~Truthy(r.geo_code) THEN prev
                     ELSE IF \E g \in 1..Len(prev) : prev[g].country_code = r.geo_code
                     THEN [g \in 1..Len(prev) |->
                             IF prev[g].country_code = r.geo_code
                             THEN [prev[g] EXCEPT !.series = Append(@, Entry(r))]
                             ELSE prev[g]]
                     ELSE Append(prev, [ country_code |-> r.geo_code,
                                         country      |-> r.geo_label,
                                         unit         |-> "% of GDP",
                                         series       |-> <<Entry(r)>> ])
    IN  acc[n]

\* a variant: the records are grouped in the order they were materialized
SeriesByGeo_unsorted(records) == GroupByGeo(records)

\* all_records_sorted = sorted(all_records, key=(geo_code, time_pos)), grouped;
\* build_timeseries_object lists series_by_geo.values() in this order
SeriesByGeo(records) ==
    GroupByGeo(StableSort(records, [i \in 1..Len(records) |-> [j \in 1..Len(records) |->
                                      GeoTimeLess(records[i], records[j])]]))

\* ------------------------------------------------------------------ the run

DATASETS == <<"teina230", "gov_10a_taxag">>

FileKinds == <<"snapshot", "timeseries", "latest_cross", "latest_timeseries">>

VARIABLES
    ds,             \* main: position in DATASETS of the dataset in progress
    pc,             \* the statement the run is at
    error,          \* the exception in flight, None when there is none
    cube,           \* process_dataset: the fetched document
    dim_meta,       \* parse_latest_and_timeseries: locals
    latest_time,    \*   latest_time_pos, latest_time_code, latest_time_label
    all_records,
    chosen_unit,
    latest_output,
    series_by_geo,
    meta,
    hashes,         \* process_dataset: the four hashes, in FileKinds order
    hash_raised,    \*   the sha256_file call that raised, 0 when none did
    files,          \* the files on disk: <<dataset id, kind>>
    all_manifest,   \* main: all_manifest["datasets"], a dict id -> entry
    failed,         \* main: the datasets logged as failed, with the error
    manifest_out,   \* the contents written to manifest.json, one per write
    dec             \* the coordinate decoder on its own: input and output

vars == << ds, pc, error, cube, dim_meta, latest_time, all_records, chosen_unit,
           latest_output, series_by_geo, meta, hashes, hash_raised, files,
           all_manifest, failed, manifest_out, dec >>

locals == << cube, dim_meta, latest_time, all_records, chosen_unit,
             latest_output, series_by_geo, meta, hashes, hash_raised >>

NoCube == [ id |-> <<>>, size |-> <<>>, dimension |-> <<>>, value |-> <<>> ]

NoLatestTime == [ pos |-> -1, code |-> None, label |-> None ]

NoMeta == [ dim_ids |-> <<>>, units_present |-> <<>>, chosen_unit |-> None,
            latest_time_code |-> None, latest_time_label |-> None ]

NoDec == [ idx |-> 0, sizes |-> <<>>, coords |-> <<>>, done |-> FALSE ]

LocalsFresh ==
    /\ cube = NoCube
    /\ dim_meta = <<>>
    /\ latest_time = NoLatestTime
    /\ all_records = <<>>
    /\ chosen_unit = None
    /\ latest_output = <<>>
    /\ series_by_geo = <<>>
    /\ meta = NoMeta
    /\ hashes = <<>>
    /\ hash_raised = 0

Init ==
    /\ ds = 1
    /\ pc = "fetch"
    /\ error = None
    /\ LocalsFresh
    /\ files = {}
    /\ all_manifest = <<>>
    /\ failed = <<>>
    /\ manifest_out = <<>>
    /\ dec = NoDec

\* an exception leaves process_dataset: main's handler is next
Raise(e) ==
    /\ pc' = "except"
    /\ error' = e

\* ---- process_dataset, 1) fetch
FetchOk ==
    /\ pc = "fetch"
    /\ \E c \in Cubes : cube' = c
    /\ pc' = "parse_value"
    /\ UNCHANGED << ds, error, dim_meta, latest_time, all_records, chosen_unit,
                    latest_output, series_by_geo, meta, hashes,
                    hash_raised, files,
                    all_manifest, failed, manifest_out, dec >>

\* requests.get or raise_for_status raises; logged and re-raised
FetchRaises ==
    /\ pc = "fetch"
    /\ Raise("RequestException")
    /\ UNCHANGED << ds, locals, files, all_manifest, failed, manifest_out, dec >>

\* ---- parse_latest_and_timeseries
\* a variant: an empty value mapping is not looked at
value_missing_never(c) == FALSE

\* not value_map, for value_map = cube.get("value", {})
value_missing(c) == c.value = <<>>

ParseValue ==
    /\ pc = "parse_value"
    /\ IF value_missing(cube)
       THEN Raise("ValueError: no value")
       ELSE pc' = "build_dim_meta" /\ UNCHANGED error
    /\ UNCHANGED << ds, locals, files, all_manifest, failed, manifest_out, dec >>

BuildDimMeta ==
    /\ pc = "build_dim_meta"
    /\ IF build_dim_meta_raises(cube)
       THEN Raise("KeyError: dimension") /\ UNCHANGED dim_meta
       ELSE /\ dim_meta' = build_dim_meta(cube)
            /\ pc' = "latest_time"
            /\ UNCHANGED error
    /\ UNCHANGED << ds, cube, latest_time, all_records, chosen_unit, latest_output,
                    series_by_geo, meta, hashes,
                    hash_raised, files, all_manifest, failed,
                    manifest_out, dec >>

LatestTime ==
    /\ pc = "latest_time"
    /\ IF "time" \notin DOMAIN dim_meta
       THEN Raise("ValueError: no time") /\ UNCHANGED latest_time
       ELSE LET time_size == dim_meta["time"].size
                latest_time_pos == time_size - 1
                inv == dim_meta["time"].inv_index
            IN  IF ~DictHas(inv, latest_time_pos)
                THEN Raise("KeyError: latest_time_pos") /\ UNCHANGED latest_time
                ELSE LET latest_time_code == DictGet(inv, latest_time_pos)
                     IN  /\ latest_time' =
                               [ pos   |-> latest_time_pos,
                                 code  |-> latest_time_code,
                                 label |-> DictGetOr(dim_meta["time"].labels,
                                                     latest_time_code, latest_time_code) ]
                         /\ pc' = "materialize"
                         /\ UNCHANGED error
    /\ UNCHANGED << ds, cube, dim_meta, all_records, chosen_unit, latest_output,
                    series_by_geo, meta, hashes,
                    hash_raised, files, all_manifest, failed,
                    manifest_out, dec >>

MaterializeCells ==
    /\ pc = "materialize"
    /\ IF MaterializeRaises(cube, dim_meta)
       THEN Raise("KeyError: inv_index") /\ UNCHANGED all_records
       ELSE /\ all_records' = Materialize(cube, dim_meta)
            /\ pc' = "choose_unit"
            /\ UNCHANGED error
    /\ UNCHANGED << ds, cube, dim_meta, latest_time, chosen_unit, latest_output,
                    series_by_geo, meta, hashes,
                    hash_raised, files, all_manifest, failed,
                    manifest_out, dec >>

ChooseUnit ==
    /\ pc = "choose_unit"
    /\ chosen_unit' = choose_pct_unit(all_records)
    /\ all_records' = FilterUnit(all_records, chosen_unit')
    /\ pc' = "project_latest"
    /\ UNCHANGED << ds, error, cube, dim_meta, latest_time, latest_output,
                    series_by_geo, meta, hashes,
                    hash_raised, files, all_manifest, failed,
                    manifest_out, dec >>

ProjectLatest ==
    /\ pc = "project_latest"
    /\ latest_output' = LatestOutput(all_records, latest_time.pos)
    /\ pc' = "project_timeseries"
    /\ UNCHANGED << ds, error, cube, dim_meta, latest_time, all_records, chosen_unit,
                    series_by_geo, meta, hashes,
                    hash_raised, files, all_manifest, failed,
                    manifest_out, dec >>

\* the timeseries loop, meta, and the return to process_dataset
ProjectTimeseries ==
    /\ pc = "project_timeseries"
    /\ series_by_geo' = SeriesByGeo(all_records)
    /\ meta' = [ dim_ids          |-> cube.id,
                 units_present    |-> UnitsPresent(all_records),
                 chosen_unit      |-> chosen_unit,
                 latest_time_code |-> latest_time.code,
                 latest_time_label |-> latest_time.label ]
    /\ pc' = "check_latest"
    /\ UNCHANGED << ds, error, cube, dim_meta, latest_time, all_records, chosen_unit,
                    latest_output, hashes, hash_raised, files, all_manifest, failed,
                    manifest_out, dec >>

\* a variant: the hard failure waits until both projections are empty
CheckLatest_bothempty ==
    /\ pc = "check_latest"
    /\ IF latest_output = <<>> /\ series_by_geo = <<>>
       THEN Raise("RuntimeError: no records")
       ELSE pc' = "write_1" /\ UNCHANGED error
    /\ UNCHANGED << ds, locals, files, all_manifest, failed, manifest_out, dec >>

\* ---- process_dataset, after the parse
CheckLatest ==
    /\ pc = "check_latest"
    /\ IF latest_output = <<>>
       THEN Raise("RuntimeError: no records")
       ELSE pc' = "write_1" /\ UNCHANGED error
    /\ UNCHANGED << ds, locals, files, all_manifest, failed, manifest_out, dec >>

WritePc == <<"write_1", "write_2", "write_3", "write_4">>

\* write_json of the k-th file succeeds
WriteOk ==
    \E k \in 1..4 :
        /\ pc = WritePc[k]
        /\ files' = files \cup { <<DATASETS[ds], FileKinds[k]>> }
        /\ pc' = IF k < 4 THEN WritePc[k + 1] ELSE "hashes"
        /\ UNCHANGED << ds, error, locals, all_manifest, failed, manifest_out, dec >>

\* write_json of the k-th file raises (mkdir or write_text)
WriteRaises ==
    \E k \in 1..4 :
        /\ pc = WritePc[k]
        /\ Raise("OSError: write")
        /\ UNCHANGED << ds, locals, files, all_manifest, failed, manifest_out, dec >>

Sha(kind) == <<"sha256", kind>>

\* a variant: the except clause leaves the hashes computed before the failure
HashesAfter_partial(k) ==
    [ j \in 1..4 |-> IF k = 0 \/ j < k THEN Sha(FileKinds[j]) ELSE None ]

\* hash_snap, hash_ts, hash_latest, hash_latest_ts after the try block in
\* which the k-th sha256_file call raised (k = 0: none did); the except
\* clause assigns None to all four
HashesAfter(k) ==
    [ j \in 1..4 |-> IF k = 0 THEN Sha(FileKinds[j]) ELSE None ]

\* the try block of the four sha256_file calls
Hashes ==
    /\ pc = "hashes"
    /\ \E k \in 0..4 :
          /\ hash_raised' = k
          /\ hashes' = HashesAfter(k)
    /\ pc' = "return"
    /\ UNCHANGED << ds, error, cube, dim_meta, latest_time, all_records, chosen_unit,
                    latest_output, series_by_geo, meta, files, all_manifest, failed,
                    manifest_out, dec >>

\* a variant: the series are counted, not their entries
SumLen_series(records) == Len(records)

\* sum(len(x["series"]) for x in ts_obj["records"])
SumLen(records) ==
    LET n == Len(records)
        acc[k \in 0..n] == IF k = 0 THEN 0 ELSE acc[k - 1] + Len(records[k].series)
    IN  acc[n]

ManifestEntry ==
    [ latest_period           |-> meta.latest_time_label,
      unit                    |-> "% of GDP",
      hashes                  |-> hashes,
      record_count_latest     |-> Len(latest_output),
      record_count_timeseries |-> SumLen(series_by_geo) ]

\* ---- main
NextDataset ==
    /\ ds' = ds + 1
    /\ pc' = IF ds + 1 > Len(DATASETS) THEN "write_manifest" ELSE "fetch"
    /\ error' = None
    /\ cube' = NoCube
    /\ dim_meta' = <<>>
    /\ latest_time' = NoLatestTime
    /\ all_records' = <<>>
    /\ chosen_unit' = None
    /\ latest_output' = <<>>
    /\ series_by_geo' = <<>>
    /\ meta' = NoMeta
    /\ hashes' = <<>>
    /\ hash_raised' = 0

\* a variant: a dataset whose hashes could not be computed is a failed dataset
Return_hashfatal ==
    /\ pc = "return"
    /\ IF hash_raised # 0
       THEN /\ failed' = Append(failed, <<DATASETS[ds], "OSError: hash">>)
            /\ UNCHANGED all_manifest
       ELSE /\ all_manifest' = DictSet(all_manifest, DATASETS[ds], ManifestEntry)
            /\ UNCHANGED failed
    /\ NextDataset
    /\ UNCHANGED << files, manifest_out, dec >>

\* process_dataset returns; all_manifest["datasets"][dataset_id] = entry
Return ==
    /\ pc = "return"
    /\ all_manifest' = DictSet(all_manifest, DATASETS[ds], ManifestEntry)
    /\ NextDataset
    /\ UNCHANGED << files, failed, manifest_out, dec >>

\* a variant: the first failed dataset ends the run
Except_abort ==
    /\ pc = "except"
    /\ failed' = Append(failed, <<DATASETS[ds], error>>)
    /\ pc' = "crashed"
    /\ UNCHANGED << ds, error, locals, files, all_manifest, manifest_out, dec >>

\* a variant: a failed dataset gets a manifest entry all the same
Except_entry ==
    /\ pc = "except"
    /\ failed' = Append(failed, <<DATASETS[ds], error>>)
    /\ all_manifest' = DictSet(all_manifest, DATASETS[ds], None)
    /\ NextDataset
    /\ UNCHANGED << files, manifest_out, dec >>

\* except Exception as e: log.error(...)
Except ==
    /\ pc = "except"
    /\ failed' = Append(failed, <<DATASETS[ds], error>>)
    /\ NextDataset
    /\ UNCHANGED << files, all_manifest, manifest_out, dec >>

WriteManifestOk ==
    /\ pc = "write_manifest"
    /\ manifest_out' = Append(manifest_out, all_manifest)
    /\ pc' = "done"
    /\ UNCHANGED << ds, error, locals, files, all_manifest, failed, dec >>

\* write_json(MANIFEST_OUT, ...) raises and nothing catches it
WriteManifestRaises ==
    /\ pc = "write_manifest"
    /\ pc' = "crashed"
    /\ error' = "OSError: write"
    /\ UNCHANGED << ds, locals, files, all_manifest, failed, manifest_out, dec >>

Next ==
    \/ FetchOk
    \/ FetchRaises
    \/ ParseValue
    \/ BuildDimMeta
    \/ LatestTime
    \/ MaterializeCells
    \/ ChooseUnit
    \/ ProjectLatest
    \/ ProjectTimeseries
    \/ CheckLatest
    \/ WriteOk
    \/ WriteRaises
    \/ Hashes
    \/ Return
    \/ Except
    \/ WriteManifestOk
    \/ WriteManifestRaises

Spec == Init /\ [][Next]_vars

\* ---- parse_latest_and_timeseries applied to every cube
InitParse ==
    /\ ds = 1
    /\ pc = "parse_value"
    /\ error = None
    /\ cube \in Cubes
    /\ dim_meta = <<>>
    /\ latest_time = NoLatestTime
    /\ all_records = <<>>
    /\ chosen_unit = None
    /\ latest_output = <<>>
    /\ series_by_geo = <<>>
    /\ meta = NoMeta
    /\ hashes = <<>>
    /\ hash_raised = 0
    /\ files = {}
    /\ all_manifest = <<>>
    /\ failed = <<>>
    /\ manifest_out = <<>>
    /\ dec = NoDec

NextParse ==
    \/ ParseValue
    \/ BuildDimMeta
    \/ LatestTime
    \/ MaterializeCells
    \/ ChooseUnit
    \/ ProjectLatest
    \/ ProjectTimeseries

SpecParse == InitParse /\ [][NextParse]_vars

\* ---- the coordinate decoder applied to every index of every size list
SizeLists == UNION { [1..n -> 1..MaxDimSize] : n \in 1..MaxDims }

InitCoords ==
    /\ ds = 1
    /\ pc = "fetch"
    /\ error = None
    /\ LocalsFresh
    /\ files = {}
    /\ all_manifest = <<>>
    /\ failed = <<>>
    /\ manifest_out = <<>>
    /\ \E sizes \in SizeLists : \E idx \in 0..(Product(sizes) - 1) :
          dec = [ idx |-> idx, sizes |-> sizes, coords |-> <<>>, done |-> FALSE ]

Decode ==
    /\ ~dec.done
    /\ dec' = [dec EXCEPT !.coords = linear_index_to_coords(dec.idx, dec.sizes),
                          !.done = TRUE]
    /\ UNCHANGED << ds, pc, error, locals, files, all_manifest, failed, manifest_out >>

NextCoords == Decode

SpecCoords == InitCoords /\ [][NextCoords]_vars

\* ------------------------------------------------------------------ properties

\* the statements of the run at which chosen_unit is set, the latest-period
\* projection is built, and the parse has returned
AfterChoose ==
    { "project_latest", "project_timeseries", "check_latest",
      "write_1", "write_2", "write_3", "write_4", "hashes", "return" }

AfterLatest == AfterChoose \ { "project_latest" }

AfterParse == AfterLatest \ { "project_timeseries" }

Writing == { "write_1", "write_2", "write_3", "write_4", "hashes", "return" }

\* the records materialized from the cube, before the unit filter
Materialized == Materialize(cube, dim_meta)

\* the unit codes present in records
UnitCodesIn(records) ==
    { records[j].unit_code :
        j \in { i \in 1..Len(records) : Truthy(records[i].unit_code) } }

Count(seq, Test(_)) == Cardinality({ j \in 1..Len(seq) : Test(seq[j]) })

\* C1: for every list of positive sizes and every index below their product,
\* the decoded positions are digits of the sizes' mixed radix and encode, row
\* major, the index they were decoded from
C1_DecodeRoundTrip ==
    dec.done =>
        /\ Len(dec.coords) = Len(dec.sizes)
        /\ \A j \in 1..Len(dec.sizes) : dec.coords[j] \in 0..(dec.sizes[j] - 1)
        /\ EncodeCoords(dec.coords, dec.sizes) = dec.idx

C1_Witness ==
    /\ dec.done
    /\ dec.sizes = <<2, 3, 2>>
    /\ dec.idx = 7
    /\ dec.coords = <<1, 0, 1>>

\* C2: in the latest-period projection every record with a value precedes
\* every record without one, and the values present do not increase
C2_PresentFirstDescending ==
    \A i, j \in 1..Len(latest_output) :
        i < j =>
            /\ latest_output[i].value_pct_gdp.none => latest_output[j].value_pct_gdp.none
            /\ (~latest_output[i].value_pct_gdp.none /\ ~latest_output[j].value_pct_gdp.none)
                  => latest_output[i].value_pct_gdp.num >= latest_output[j].value_pct_gdp.num

\* C3: when one of PC_GDP, PCGDP, PCT_GDP, PCTGDP is a unit code of the records,
\* the unit chosen is the first of the four, in that order, that is present,
\* whatever the record order and the labels
C3_PreferredUnitFirst ==
    pc \in AfterChoose =>
        LET pref == <<"PC_GDP", "PCGDP", "PCT_GDP", "PCTGDP">>
            present == UnitCodesIn(Materialized)
        IN  \A p \in 1..4 :
                ( /\ pref[p] \in present
                  /\ \A q \in 1..(p - 1) : pref[q] \notin present )
                => chosen_unit = pref[p]

C3_Witness ==
    /\ pc = "project_latest"
    /\ Len(Materialized) = 2
    /\ Materialized[1].unit_code = "PCGDP"
    /\ Materialized[1].unit_label = "Percentage (%) of GDP"
    /\ Materialized[2].unit_code = "PC_GDP"
    /\ chosen_unit = "PC_GDP"

\* C4: when no preferred code is present and some present unit code has a label
\* with '%', the unit chosen is the one, among those, whose first record comes
\* first in the record list
C4_FirstSeenPctLabel ==
    pc \in AfterChoose =>
        LET M == Materialized
            pct == { j \in 1..Len(M) :
                       /\ Truthy(M[j].unit_code)
                       /\ M[j].unit_label \in { "Percentage (%) of GDP", "%" } }
        IN  ( /\ UnitCodesIn(M) \cap { "PC_GDP", "PCGDP", "PCT_GDP", "PCTGDP" } = {}
              /\ pct # {} )
            => \E j \in pct :
                  /\ \A i \in pct : j <= i
                  /\ chosen_unit = M[j].unit_code

C4_Witness ==
    /\ pc = "project_latest"
    /\ Len(Materialized) = 2
    /\ Materialized[1].unit_code = "XYZ"
    /\ Materialized[2].unit_code = "ABC"
    /\ Materialized[2].unit_label = "Percentage (%) of GDP"
    /\ chosen_unit = "XYZ"

\* C5: with no preferred code and no '%' label the unit chosen is the only unit
\* code present, or none when there is not exactly one; the projections hold the
\* records of the chosen unit only, or every materialized record when none is
\* chosen
C5_FallbackAndFilter ==
    pc \in AfterParse =>
        LET M == Materialized
            present == UnitCodesIn(M)
            kept == IF chosen_unit # None /\ chosen_unit # ""
                    THEN SelectSeq(M, LAMBDA r : r.unit_code = chosen_unit)
                    ELSE M
            nopct == \A j \in 1..Len(M) :
                        Truthy(M[j].unit_code)
                        => M[j].unit_label \notin { "Percentage (%) of GDP", "%" }
        IN  /\ ( /\ present \cap { "PC_GDP", "PCGDP", "PCT_GDP", "PCTGDP" } = {}
                 /\ nopct )
               => IF Cardinality(present) = 1
                  THEN chosen_unit \in present
                  ELSE chosen_unit = None
            /\ all_records = kept
            /\ Len(latest_output) = Count(kept, LAMBDA r : r.time_pos = latest_time.pos)
            /\ \A i \in 1..Len(latest_output) : \E j \in 1..Len(kept) :
                  /\ kept[j].time_pos = latest_time.pos
                  /\ kept[j].geo_code = latest_output[i].country_code
                  /\ kept[j].value = latest_output[i].value_pct_gdp
            /\ SumLen(series_by_geo) = Count(kept, LAMBDA r : Truthy(r.geo_code))

C5_Witness ==
    /\ pc = "check_latest"
    /\ chosen_unit = None
    /\ Len(Materialized) = 2
    /\ Materialized[1].unit_code = "ABC"
    /\ Materialized[2].unit_code = "XYZ"
    /\ Len(latest_output) = 2
    /\ SumLen(series_by_geo) = 2

\* C6: every series is strictly ascending by time position, so no two of its
\* entries share a position, and it has one entry per time position observed
\* for its geography among the unit-filtered records
C6_SeriesStrictlyAscending ==
    pc \in AfterParse =>
        \A g \in 1..Len(series_by_geo) :
            LET series == series_by_geo[g].series
                geo == series_by_geo[g].country_code
            IN  /\ \A i, j \in 1..Len(series) :
                      i < j => series[i].time_pos < series[j].time_pos
                /\ Len(series) =
                      Cardinality({ all_records[j].time_pos :
                                      j \in { i \in 1..Len(all_records) :
                                                all_records[i].geo_code = geo } })

\* C7: the latest-period projection has at most one record per geography code
C7_OneRecordPerGeo ==
    \A i, j \in 1..Len(latest_output) :
        i # j => latest_output[i].country_code # latest_output[j].country_code

\* the size the time dimension's category declares: "length", else its codes
DeclaredTimeSize ==
    LET cat == cube.dimension["time"]
    IN  IF cat.length # <<>> THEN cat.length[1]
        ELSE IF cat.index # <<>> THEN Len(cat.index)
        ELSE Len(cat.label)

\* C8: the latest period is position (declared time size - 1); the projection
\* is the unit-filtered records at that position, and the dataset fails exactly
\* when there are none, whatever is observed at earlier positions
C8_LatestIsLastDeclared ==
    /\ pc \in AfterChoose => latest_time.pos = DeclaredTimeSize - 1
    /\ pc \in AfterLatest =>
          /\ Len(latest_output) =
                Count(all_records, LAMBDA r : r.time_pos = DeclaredTimeSize - 1)
          /\ \A i \in 1..Len(latest_output) :
                Count(latest_output, LAMBDA o : o = latest_output[i])
                = Count(all_records, LAMBDA r :
                      /\ r.time_pos = DeclaredTimeSize - 1
                      /\ r.geo_code = latest_output[i].country_code
                      /\ r.geo_label = latest_output[i].country
                      /\ r.time_label = latest_output[i].time
                      /\ r.value = latest_output[i].value_pct_gdp)
    /\ pc \in Writing =>
          \E j \in 1..Len(all_records) : all_records[j].time_pos = DeclaredTimeSize - 1
    /\ (pc = "except" /\ error = "RuntimeError: no records") =>
          /\ latest_output = <<>>
          /\ \A j \in 1..Len(all_records) : all_records[j].time_pos # DeclaredTimeSize - 1

C8_Witness ==
    /\ pc = "except"
    /\ error = "RuntimeError: no records"
    /\ Len(all_records) = 2
    /\ \A j \in 1..Len(all_records) : all_records[j].time_pos = 0
    /\ DeclaredTimeSize = 2
    /\ latest_time.pos = 1

\* C9: the timeseries projection lists one series per geography code of the
\* unit-filtered records, none for records without a geography code, in
\* ascending order of geography code
C9_SeriesPerGeoSorted ==
    pc \in AfterParse =>
        /\ { series_by_geo[g].country_code : g \in 1..Len(series_by_geo) }
              = { all_records[j].geo_code :
                    j \in { i \in 1..Len(all_records) :
                              all_records[i].geo_code \notin { None, "" } } }
        /\ \A g, h \in 1..Len(series_by_geo) :
              g < h => StrLess(series_by_geo[g].country_code,
                               series_by_geo[h].country_code)

C9_Witness ==
    /\ pc = "check_latest"
    /\ Len(all_records) = 3
    /\ all_records[1].geo_code = "DE"
    /\ all_records[2].geo_code = "BE"
    /\ all_records[3].geo_code = "DE"
    /\ Len(series_by_geo) = 2
    /\ series_by_geo[1].country_code = "BE"
    /\ Len(series_by_geo[2].series) = 2

C9_WitnessNoGeo ==
    /\ pc = "check_latest"
    /\ Len(all_records) = 2
    /\ all_records[1].geo_code = ""
    /\ Len(series_by_geo) = 1

\* a cube that is structurally invalid: no value mapping, a dimension of the
\* id list without metadata, or no dimension named "time"
NoValue == cube # NoCube /\ cube.value = <<>>

NoMetadata ==
    \E j \in 1..Len(cube.id) : cube.id[j] \notin DOMAIN cube.dimension

NoTime == cube # NoCube /\ \A j \in 1..Len(cube.id) : cube.id[j] # "time"

\* C10: a structurally invalid cube fails the parse with an error and no
\* projection: an empty value mapping before the catalog is built and before
\* any record is materialized, and likewise a missing "time" dimension and a
\* dimension without metadata
C10_InvalidCubeFails ==
    /\ NoValue =>
          /\ pc \in { "parse_value", "except" }
          /\ pc = "except" => error = "ValueError: no value"
          /\ dim_meta = <<>>
    /\ (~NoValue /\ NoMetadata) =>
          /\ pc \in { "parse_value", "build_dim_meta", "except" }
          /\ pc = "except" => error = "KeyError: dimension"
          /\ dim_meta = <<>>
    /\ (~NoValue /\ ~NoMetadata /\ NoTime) =>
          /\ pc \in { "parse_value", "build_dim_meta", "latest_time", "except" }
          /\ pc = "except" => error = "ValueError: no time"
    /\ (NoValue \/ NoMetadata \/ NoTime) =>
          /\ all_records = <<>>
          /\ latest_output = <<>>
          /\ series_by_geo = <<>>
          /\ meta = NoMeta

C10_Witness ==
    /\ pc = "except"
    /\ error = "ValueError: no value"
    /\ cube.id = <<"unit", "geo", "time">>
    /\ DOMAIN cube.dimension = { "unit", "geo", "time" }

C10_WitnessNoTime ==
    /\ pc = "except"
    /\ error = "ValueError: no time"
    /\ cube.value # <<>>

C10_WitnessNoMetadata ==
    /\ pc = "except"
    /\ error = "KeyError: dimension"
    /\ cube.value # <<>>

\* ---- the run over the configured datasets

\* the datasets with an entry in the accumulating manifest, the datasets main
\* logged as failed, and the kinds of file written for a dataset in this run
ManifestIds == { all_manifest[j][1] : j \in 1..Len(all_manifest) }

FailedIds == { failed[j][1] : j \in 1..Len(failed) }

FilesOf(id) == { k \in 1..4 : <<id, FileKinds[k]>> \in files }

DatasetPos(id) == CHOOSE k \in 1..Len(DATASETS) : DATASETS[k] = id

\* the datasets whose attempt is over: main's loop has moved past them
Attempted == { DATASETS[k] : k \in 1..(ds - 1) }

\* C11: a failed dataset ends only its own attempt: the step after the failure
\* starts the next configured dataset (or, after the last one, the manifest
\* write) with the files and the manifest kept; every dataset before the one in
\* progress ended as an entry or as a logged failure; the manifest is written
\* at most once, only when every configured dataset has been attempted, with
\* the accumulated entries; and the run has ended normally exactly when that
\* write succeeded
C11_FailureAbortsOnlyThatDataset ==
    /\ [](/\ ds \in 1..(Len(DATASETS) + 1)
          /\ ManifestIds \cup FailedIds = Attempted
          /\ ManifestIds \cap FailedIds = {}
          /\ Len(all_manifest) + Len(failed) = ds - 1
          /\ pc \in { "write_manifest", "done", "crashed" } => ds = Len(DATASETS) + 1
          /\ ds <= Len(DATASETS) => manifest_out = <<>>
          /\ Len(manifest_out) <= 1
          /\ pc = "done" <=> manifest_out # <<>>
          /\ pc = "done" => manifest_out = <<all_manifest>>)
    /\ [][pc = "except" =>
            /\ ds' = ds + 1
            /\ pc' = IF ds < Len(DATASETS) THEN "fetch" ELSE "write_manifest"
            /\ failed' = Append(failed, <<DATASETS[ds], error>>)
            /\ UNCHANGED << files, all_manifest, manifest_out >>]_vars

\* the first dataset failed, the second got its entry, the manifest is written
C11_Witness ==
    /\ pc = "done"
    /\ FailedIds = { DATASETS[1] }
    /\ ManifestIds = { DATASETS[2] }
    /\ manifest_out = <<all_manifest>>

\* C12: the accumulating manifest holds an entry for exactly the datasets whose
\* attempt is over and did not fail, each with its four files written; the
\* entries are in configuration order; and a step only ever appends an entry:
\* no entry is removed or replaced, and a failure adds none
C12_ManifestAccumulates ==
    /\ [](/\ \A k \in 1..Len(DATASETS) :
                DATASETS[k] \in ManifestIds
                <=> (k < ds /\ DATASETS[k] \notin FailedIds)
          /\ \A id \in ManifestIds : FilesOf(id) = 1..4
          /\ \A i, j \in 1..Len(all_manifest) :
                i < j => DatasetPos(all_manifest[i][1]) < DatasetPos(all_manifest[j][1]))
    /\ [][/\ Len(all_manifest') >= Len(all_manifest)
          /\ \A j \in 1..Len(all_manifest) : all_manifest'[j] = all_manifest[j]
          /\ pc # "return" => all_manifest' = all_manifest
          /\ pc = "return" =>
                all_manifest' = Append(all_manifest, <<DATASETS[ds], ManifestEntry>>)]_vars

\* the first dataset failed at its fourth write, the second has its entry
C12_Witness ==
    /\ pc = "write_manifest"
    /\ FilesOf(DATASETS[1]) = 1..3
    /\ FailedIds = { DATASETS[1] }
    /\ Len(all_manifest) = 1
    /\ all_manifest[1][1] = DATASETS[2]

\* both datasets have their entries, in configuration order
C12_WitnessBoth ==
    /\ Len(all_manifest) = 2
    /\ all_manifest[1][1] = DATASETS[1]
    /\ all_manifest[2][1] = DATASETS[2]

\* C13: no file is written for a dataset whose latest-period projection is
\* empty: the writes are reached only with a non-empty projection, and the
\* dataset that failed for it has none of its four files and no manifest
\* entry, whatever its timeseries projection holds
C13_EmptyLatestWritesNothing ==
    /\ pc \in Writing => latest_output # <<>>
    /\ pc = "check_latest" => FilesOf(DATASETS[ds]) = {}
    /\ (pc = "except" /\ error = "RuntimeError: no records") =>
          /\ latest_output = <<>>
          /\ FilesOf(DATASETS[ds]) = {}
          /\ DATASETS[ds] \notin ManifestIds
    /\ \A j \in 1..Len(failed) :
          failed[j][2] = "RuntimeError: no records" =>
              /\ FilesOf(failed[j][1]) = {}
              /\ failed[j][1] \notin ManifestIds

\* the dataset fails for an empty latest projection although it has a series
C13_Witness ==
    /\ pc = "except"
    /\ error = "RuntimeError: no records"
    /\ latest_output = <<>>
    /\ series_by_geo # <<>>
    /\ FilesOf(DATASETS[ds]) = {}

\* C14: a hash that cannot be computed does not fail the dataset: no exception
\* leaves the try block, the hash of the file whose hashing raised is null, and
\* the return adds the dataset's manifest entry with those hashes and logs no
\* failure; a raising envelope write fails the dataset, which gets no entry
C14_HashFailureNotFatal ==
    /\ [](/\ pc = "return" =>
                /\ error = None
                /\ hash_raised # 0 => hashes[hash_raised] = None
          /\ (pc = "except" /\ error = "OSError: write") =>
                DATASETS[ds] \notin ManifestIds
          /\ \A j \in 1..Len(failed) :
                failed[j][2] = "OSError: write" => failed[j][1] \notin ManifestIds)
    /\ [][pc = "return" =>
            /\ DictHas(all_manifest', DATASETS[ds])
            /\ DictGet(all_manifest', DATASETS[ds]).hashes = hashes
            /\ failed' = failed]_vars

\* the first dataset's hashing raised and it has its entry with null hashes;
\* the second dataset's write raised and it has none
C14_Witness ==
    /\ pc = "write_manifest"
    /\ ManifestIds = { DATASETS[1] }
    /\ \A k \in 1..4 : all_manifest[1][2].hashes[k] = None
    /\ failed = << <<DATASETS[2], "OSError: write">> >>

\* ---- the metadata, the end-to-end scenario, the catalog

\* C15: the metadata returned with the projections carries the cube's list of
\* dimension names, the sorted unit codes of the records as materialized,
\* before the unit filter, the chosen unit (or none), and the latest period's
\* code and label
C15_MetaUnitsBeforeFilter ==
    pc \in AfterParse =>
        LET M == Materialized
        IN  /\ meta.dim_ids = cube.id
            /\ meta.units_present = SortedCodes(UnitCodesIn(M))
            /\ meta.chosen_unit = chosen_unit
            /\ meta.latest_time_code = latest_time.code
            /\ meta.latest_time_label = latest_time.label

\* the two series of the scenario cube: each geography's two periods, ascending
ScenarioSeries(g, code, first, second) ==
    /\ series_by_geo[g].country_code = code
    /\ Len(series_by_geo[g].series) = 2
    /\ series_by_geo[g].series[1].time_pos = 0
    /\ series_by_geo[g].series[1].value_pct_gdp = Num(first)
    /\ series_by_geo[g].series[2].time_pos = 1
    /\ series_by_geo[g].series[2].value_pct_gdp = Num(second)

\* C16, as stated: for the scenario cube the latest-period projection is
\* [DE 65.0, BE 82.0] in that order, and the timeseries projection is two
\* series of two entries each, each ascending by time
C16_ScenarioAsStated ==
    (cube = ScenarioCube /\ pc \in AfterParse) =>
        /\ Len(latest_output) = 2
        /\ latest_output[1].country_code = "DE"
        /\ latest_output[1].value_pct_gdp = Num(65)
        /\ latest_output[2].country_code = "BE"
        /\ latest_output[2].value_pct_gdp = Num(82)
        /\ Len(series_by_geo) = 2
        /\ \A g \in 1..2 :
              /\ Len(series_by_geo[g].series) = 2
              /\ series_by_geo[g].series[1].time_pos < series_by_geo[g].series[2].time_pos

\* C16, amended: the scenario cube parses without an error; its latest-period
\* projection is [DE 65.0, BE 60.0] in that order (linear index 1 is BE at the
\* later period; 82.0 is DE at the earlier one); its timeseries projection is
\* BE [80.0, 60.0] then DE [82.0, 65.0], each ascending by time
C16_ScenarioProjections ==
    cube = ScenarioCube =>
        /\ pc # "except"
        /\ pc \in AfterLatest =>
              /\ Len(latest_output) = 2
              /\ latest_output[1].country_code = "DE"
              /\ latest_output[1].value_pct_gdp = Num(65)
              /\ latest_output[2].country_code = "BE"
              /\ latest_output[2].value_pct_gdp = Num(60)
              /\ \A j \in 1..2 : latest_output[j].time = "2024-Q1"
        /\ pc \in AfterParse =>
              /\ Len(series_by_geo) = 2
              /\ ScenarioSeries(1, "BE", 80, 60)
              /\ ScenarioSeries(2, "DE", 82, 65)

C16_Witness ==
    /\ cube = ScenarioCube
    /\ pc = "check_latest"
    /\ Len(all_records) = 4
    /\ Len(latest_output) = 2
    /\ Len(series_by_geo) = 2

\* C17: every dimension of the id list has a catalog; its code-to-position map
\* is the cube's index when that is non-empty, and otherwise numbers the label
\* keys 0, 1, 2, ... in the order the label map lists them; the inverse map has
\* exactly the map's positions and sends each back to its code; the declared
\* size is "length" when the cube gives one, else the number of codes of the map
C17_DimMetaFromIndexOrLabels ==
    dim_meta # <<>> =>
        /\ DOMAIN dim_meta = { cube.id[j] : j \in 1..Len(cube.id) }
        /\ \A d \in DOMAIN dim_meta :
              LET cat == cube.dimension[d]
                  dm  == dim_meta[d]
              IN  /\ cat.index # <<>> => dm.index = cat.index
                  /\ cat.index = <<>> =>
                        /\ Len(dm.index) = Len(cat.label)
                        /\ \A j \in 1..Len(cat.label) :
                              dm.index[j] = <<cat.label[j][1], j - 1>>
                  /\ { dm.inv_index[j][1] : j \in 1..Len(dm.inv_index) }
                        = { dm.index[j][2] : j \in 1..Len(dm.index) }
                  /\ \A j \in 1..Len(dm.index) :
                        DictGet(dm.inv_index, dm.index[j][2]) = dm.index[j][1]
                  /\ dm.labels = cat.label
                  /\ dm.size = IF cat.length # <<>> THEN cat.length[1]
                               ELSE Len(dm.index)

\* a time catalog without an index: the label keys are numbered as listed
C17_Witness ==
    /\ pc = "latest_time"
    /\ dim_meta # <<>>
    /\ "time" \in DOMAIN dim_meta
    /\ cube.dimension["time"].index = <<>>
    /\ dim_meta["time"].index = << <<"2023Q4", 0>>, <<"2024Q1", 1>> >>
    /\ dim_meta["time"].inv_index = << <<0, "2023Q4">>, <<1, "2024Q1">> >>
    /\ dim_meta["time"].size = 2

\* a time catalog whose label map lists the codes in another order than its
\* index: the index decides
C17_WitnessIndex ==
    /\ pc = "latest_time"
    /\ dim_meta # <<>>
    /\ "time" \in DOMAIN dim_meta
    /\ cube.dimension["time"].index = << <<"2023Q4", 0>>, <<"2024Q1", 1>> >>
    /\ cube.dimension["time"].label[1][1] = "2024Q1"
    /\ dim_meta["time"].index = cube.dimension["time"].index

\* ---- the hashes, the record counts, the latest period's code

\* C18: the four hashes of a manifest entry are all null or all computed: if
\* any sha256_file call raised, the first one or a later one, all four are
\* null, those computed before it included; if none raised, each is the hash
\* of its file
C18_HashesAllOrNothing ==
    /\ pc = "return" =>
          /\ hash_raised = 0 => \A k \in 1..4 : hashes[k] = Sha(FileKinds[k])
          /\ hash_raised # 0 => \A k \in 1..4 : hashes[k] = None
    /\ \A j \in 1..Len(all_manifest) :
          LET h == all_manifest[j][2].hashes
          IN  \/ \A k \in 1..4 : h[k] = None
              \/ \A k \in 1..4 : h[k] = Sha(FileKinds[k])

\* the fourth call raised after three hashes were computed: all four are null
C18_Witness ==
    /\ pc = "return"
    /\ hash_raised = 4
    /\ \A k \in 1..4 : hashes[k] = None

\* the entry of a series made of the record r
IsEntryOf(e, r) ==
    /\ e.time = r.time_label
    /\ e.value_pct_gdp = r.value
    /\ e.time_pos = r.time_pos

\* C19: the timeseries projection has one series per geography code, and each
\* series holds exactly the unit-filtered records of its geography, each once
\* (records without a geography code are in none); the entry the return adds
\* to the manifest counts, as record_count_timeseries, the unit-filtered
\* records with a geography code and, as record_count_latest, the
\* unit-filtered records at the latest period's position
C19_TimeseriesCounts ==
    /\ [](pc \in AfterParse =>
            /\ \A g, h \in 1..Len(series_by_geo) :
                  g # h => series_by_geo[g].country_code # series_by_geo[h].country_code
            /\ \A g \in 1..Len(series_by_geo) :
                  LET sg == series_by_geo[g]
                  IN  /\ Truthy(sg.country_code)
                      /\ Len(sg.series)
                            = Count(all_records, LAMBDA r : r.geo_code = sg.country_code)
                      /\ \A k \in 1..Len(sg.series) :
                            Count(sg.series, LAMBDA e : e = sg.series[k])
                            = Count(all_records, LAMBDA r :
                                  /\ r.geo_code = sg.country_code
                                  /\ IsEntryOf(sg.series[k], r))
            /\ \A j \in 1..Len(all_records) :
                  Truthy(all_records[j].geo_code) =>
                      \E g \in 1..Len(series_by_geo) :
                          series_by_geo[g].country_code = all_records[j].geo_code)
    /\ [][pc = "return" =>
            LET entry == DictGet(all_manifest', DATASETS[ds])
            IN  /\ entry.record_count_timeseries
                      = Count(all_records, LAMBDA r : Truthy(r.geo_code))
                /\ entry.record_count_latest
                      = Count(all_records, LAMBDA r : r.time_pos = latest_time.pos)]_vars

\* three records of two geographies, two of them at the latest period
C19_Witness ==
    /\ pc = "return"
    /\ Len(all_records) = 3
    /\ Len(series_by_geo) = 2
    /\ Len(series_by_geo[1].series) = 2
    /\ Len(latest_output) = 2

\* a record without a geography code is counted in the latest projection and
\* is in no series
C19_WitnessNoGeo ==
    /\ pc = "return"
    /\ Len(all_records) = 2
    /\ Len(latest_output) = 2
    /\ Len(series_by_geo) = 1
    /\ Len(series_by_geo[1].series) = 1

\* the cube has values, metadata for every dimension and a "time" dimension,
\* and its time catalog has no code at position (declared size - 1)
NoLatestCode ==
    /\ cube # NoCube
    /\ ~NoValue
    /\ ~NoMetadata
    /\ ~NoTime
    /\ LET cat == cube.dimension["time"]
           positions == IF cat.index # <<>>
                        THEN { cat.index[j][2] : j \in 1..Len(cat.index) }
                        ELSE 0..(Len(cat.label) - 1)
       IN  (DeclaredTimeSize - 1) \notin positions

\* C20: a cube whose time catalog has no code at position (declared size - 1)
\* fails the parse at the latest-period lookup, before any cell is
\* materialized; the dataset is aborted with none of its files written and no
\* manifest entry
C20_NoLatestCodeFails ==
    /\ NoLatestCode =>
          /\ pc \in { "parse_value", "build_dim_meta", "latest_time", "except" }
          /\ pc = "except" => error = "KeyError: latest_time_pos"
          /\ latest_time = NoLatestTime
          /\ all_records = <<>>
          /\ latest_output = <<>>
          /\ series_by_geo = <<>>
          /\ FilesOf(DATASETS[ds]) = {}
          /\ DATASETS[ds] \notin ManifestIds
    /\ (pc = "except" /\ error = "KeyError: latest_time_pos") => NoLatestCode
    /\ \A j \in 1..Len(failed) :
          failed[j][2] = "KeyError: latest_time_pos" =>
              /\ FilesOf(failed[j][1]) = {}
              /\ failed[j][1] \notin ManifestIds

\* an explicit length of 3 over two codes
C20_Witness ==
    /\ pc = "except"
    /\ error = "KeyError: latest_time_pos"
    /\ cube.value # <<>>
    /\ cube.dimension["time"].length = <<3>>
    /\ Len(cube.dimension["time"].index) = 2

\* two codes at positions 0 and 2
C20_WitnessGap ==
    /\ pc = "except"
    /\ error = "KeyError: latest_time_pos"
    /\ cube.value # <<>>
    /\ cube.dimension["time"].length = <<>>
    /\ cube.dimension["time"].index = << <<"2023Q4", 0>>, <<"2024Q1", 2>> >>

====
